---- MODULE Spec2Model ----
(***************************************************************************)
(* Model of app.py, the Streamlit "Pharma Safety HMI".                     *)
(*                                                                         *)
(* Units.  Times are integers counting clock ticks, Hz ticks to one time   *)
(* unit of the program (a second).  Gas readings and threshold levels are  *)
(* integers in thousandths of the program's unit (19.5 %vol is 19500).     *)
(* Fractions the program computes in floating point (smoke progress,       *)
(* shutter position) are kept exact as records [n, d] with d > 0.          *)
(***************************************************************************)
EXTENDS Integers, Sequences, FiniteSets, TLC

VARIABLES
    view,      \* st.session_state.view
    room,      \* st.session_state.room
    spike,     \* st.session_state.spike
    buffers,   \* st.session_state.buffers
    latest,    \* st.session_state.latest
    now,       \* the wall clock (time.time(), Date.now()/1000), in ticks
    chat,      \* the sidebar component in the browser: payload, load time, log
    canvas,    \* the view's canvas component in the browser: payload, last frame
    clicked,   \* history: the last start-spike button pressed
    probe      \* the arguments and results of a call of the pure helpers

vars == <<view, room, spike, buffers, latest, now, chat, canvas, clicked, probe>>

session == <<view, room, spike, buffers, latest, chat, canvas, clicked>>

-----------------------------------------------------------------------------
(* Bounds of the model *)

Hz == 10            \* clock ticks per time unit
MaxUnits == 16      \* the clock stops after this many time units
MaxPoints == 2      \* start-spike is not pressed once a buffer holds this many points
BriefUnits == 4     \* the length of the brief session of SpecBrief, in time units

MaxTick == MaxUnits * Hz

-----------------------------------------------------------------------------
(* Configuration *)

None == [none |-> TRUE]     \* Python's None, JavaScript's null
NoRoom == ""                \* None as a room name (falsy, like the empty string)

ROOMS == <<"Room 1", "Room 2", "Room 3", "Room 12", "Production 1", "Production 2">>

RoomSet == {ROOMS[i] : i \in DOMAIN ROOMS}

ROOM_DETECTORS ==
    [rn \in RoomSet |->
        CASE rn = "Room 1"       -> <<"Room 1: NH3">>
          [] rn = "Room 2"       -> <<"Room 2: CO">>
          [] rn = "Room 3"       -> <<"Room 3: O2">>
          [] rn = "Room 12"      -> <<"Room 12: Ethanol">>
          [] rn = "Production 1" -> <<"Production 1: O2", "Production 1: CH4">>
          [] rn = "Production 2" -> <<"Production 2: O2", "Production 2: H2S">>]

Detectors == UNION {{ROOM_DETECTORS[rn][i] : i \in DOMAIN ROOM_DETECTORS[rn]} : rn \in RoomSet}

DEFAULT_THR ==
    [g \in {"O2", "CO", "H2S", "CH4", "NH3", "Ethanol"} |->
        CASE g = "O2"      -> [mode |-> "low",  warn |-> 19500,  alarm |-> 18000,  units |-> "%vol"]
          [] g = "CO"      -> [mode |-> "high", warn |-> 35000,  alarm |-> 50000,  units |-> "ppm"]
          [] g = "H2S"     -> [mode |-> "high", warn |-> 10000,  alarm |-> 15000,  units |-> "ppm"]
          [] g = "CH4"     -> [mode |-> "high", warn |-> 10000,  alarm |-> 20000,  units |-> "%LEL"]
          [] g = "NH3"     -> [mode |-> "high", warn |-> 25000,  alarm |-> 35000,  units |-> "ppm"]
          [] g = "Ethanol" -> [mode |-> "high", warn |-> 300000, alarm |-> 500000, units |-> "ppm"]]

Gases == DOMAIN DEFAULT_THR

-----------------------------------------------------------------------------
(* Strings: str.lower() and the substring test `pat in s` *)

LowerChar(c) ==
    CASE c = "A" -> "a" [] c = "B" -> "b" [] c = "C" -> "c" [] c = "D" -> "d"
      [] c = "E" -> "e" [] c = "F" -> "f" [] c = "G" -> "g" [] c = "H" -> "h"
      [] c = "I" -> "i" [] c = "J" -> "j" [] c = "K" -> "k" [] c = "L" -> "l"
      [] c = "M" -> "m" [] c = "N" -> "n" [] c = "O" -> "o" [] c = "P" -> "p"
      [] c = "Q" -> "q" [] c = "R" -> "r" [] c = "S" -> "s" [] c = "T" -> "t"
      [] c = "U" -> "u" [] c = "V" -> "v" [] c = "W" -> "w" [] c = "X" -> "x"
      [] c = "Y" -> "y" [] c = "Z" -> "z" [] OTHER -> c

RECURSIVE Lower(_)
Lower(s) ==
    IF Len(s) = 0 THEN ""
    ELSE LowerChar(SubSeq(s, 1, 1)) \o Lower(SubSeq(s, 2, Len(s)))

Contains(s, pat) ==
    \E i \in 1..(Len(s) - Len(pat) + 1) : SubSeq(s, i, i + Len(pat) - 1) = pat

gas_from_label(key) ==
    LET k == Lower(key) IN
    IF Contains(k, "o2") THEN "O2"
    ELSE IF Contains(k, "h2s") THEN "H2S"
    ELSE IF Contains(k, "ch4") \/ Contains(k, "lel") \/ Contains(k, "methane") THEN "CH4"
    ELSE IF Contains(k, "nh3") \/ Contains(k, "ammonia") THEN "NH3"
    ELSE IF Contains(k, "ethanol") THEN "Ethanol"
    ELSE IF Contains(k, "co") /\ ~Contains(k, "co2") THEN "CO"
    ELSE "CO"

\* The gas of every detector label of the configuration, computed once.
DetectorGas == [key \in Detectors |-> gas_from_label(key)]

-----------------------------------------------------------------------------
(* The two-level threshold policy *)

ThrOrDefault(gas) ==
    IF gas \in DOMAIN DEFAULT_THR THEN DEFAULT_THR[gas]
    ELSE [mode |-> "high", warn |-> 0, alarm |-> 0]

\* A policy whose comparisons are strict
status_for_value_strict(gas, val) ==
    LET thr == ThrOrDefault(gas) IN
    IF thr.mode = "low"
    THEN IF val < thr.alarm THEN "ALARM"
         ELSE IF val < thr.warn THEN "WARN"
         ELSE "HEALTHY"
    ELSE IF val > thr.alarm THEN "ALARM"
         ELSE IF val > thr.warn THEN "WARN"
         ELSE "HEALTHY"

status_for_value(gas, val) ==
    LET thr == ThrOrDefault(gas) IN
    IF thr.mode = "low"
    THEN IF val <= thr.alarm THEN "ALARM"
         ELSE IF val <= thr.warn THEN "WARN"
         ELSE "HEALTHY"
    ELSE IF val >= thr.alarm THEN "ALARM"
         ELSE IF val >= thr.warn THEN "WARN"
         ELSE "HEALTHY"


-----------------------------------------------------------------------------
(* Exact fractions [n, d], d > 0, for the browser's floating-point values *)

Frac(n, d) == [n |-> n, d |-> d]

Zero == Frac(0, 1)
One == Frac(1, 1)

FLt(a, b) == a.n * b.d < b.n * a.d
FLe(a, b) == a.n * b.d <= b.n * a.d
FEq(a, b) == a.n * b.d = b.n * a.d
FMin(a, b) == IF FLe(a, b) THEN a ELSE b
FMax(a, b) == IF FLe(a, b) THEN b ELSE a

Max(a, b) == IF a >= b THEN a ELSE b

-----------------------------------------------------------------------------
(* math.sin, by Bhaskara's rational approximation (error below 0.002).     *)
(* The angle is in thousandths of a radian, the result in thousandths.     *)

SinHalfWave(x) ==
    LET P == 3142
        q == x * (P - x)
    IN  (16 * q) \div ((5 * P * P - 4 * q) \div 1000)

SinMilli(x) ==
    LET P == 3142
        y == x % (2 * P)
    IN  IF y <= P THEN SinHalfWave(y) ELSE 0 - SinHalfWave(y - P)

\* sin(t / k) for a time t in ticks, in thousandths
Sin(t, k) == SinMilli((t * 1000) \div (k * Hz))

-----------------------------------------------------------------------------
(* The reading buffers *)

BufferCap == 1800

Point(ts, val) == [ts |-> ts, val |-> val]

\* A push_point whose trim keeps the oldest points instead of the newest
push_point_oldest(s, key, val, ts) ==
    LET old == IF key \in DOMAIN s.buffers THEN s.buffers[key] ELSE <<>>
        app == Append(old, Point(ts, val))
        buf == IF Len(app) > BufferCap
               THEN SubSeq(app, 1, BufferCap)
               ELSE app
    IN  [buffers |-> [k \in DOMAIN s.buffers \cup {key} |->
                         IF k = key THEN buf ELSE s.buffers[k]],
         latest  |-> [k \in DOMAIN s.latest \cup {key} |->
                         IF k = key THEN Point(ts, val) ELSE s.latest[k]]]

\* push_point(key, val) at time ts, on the pair [buffers, latest]
push_point(s, key, val, ts) ==
    LET old == IF key \in DOMAIN s.buffers THEN s.buffers[key] ELSE <<>>
        app == Append(old, Point(ts, val))
        buf == IF Len(app) > BufferCap
               THEN SubSeq(app, Len(app) - BufferCap + 1, Len(app))
               ELSE app
    IN  [buffers |-> [k \in DOMAIN s.buffers \cup {key} |->
                         IF k = key THEN buf ELSE s.buffers[k]],
         latest  |-> [k \in DOMAIN s.latest \cup {key} |->
                         IF k = key THEN Point(ts, val) ELSE s.latest[k]]]

\* The keys of vals, in the order of the dict
ValKeys ==
    <<"Room 1: NH3", "Room 2: CO", "Room 3: O2", "Room 12: Ethanol",
      "Production 1: O2", "Production 1: CH4", "Production 2: O2", "Production 2: H2S">>

\* The simulator's baseline for a detector at time time.time() = ts
BaseValue(key, ts) ==
    LET t == ts % (10000 * Hz) IN
    CASE key = "Room 1: NH3"       -> 8000 + 6 * Sin(t, 18)
      [] key = "Room 2: CO"        -> 15000 + 12 * Sin(t, 20)
      [] key = "Room 3: O2"        -> 20700 + (200 * Sin(t, 22)) \div 1000
      [] key = "Room 12: Ethanol"  -> 260000 + 120 * Sin(t, 24)
      [] key = "Production 1: O2"  -> 20800 + (140 * Sin(t, 26)) \div 1000
      [] key = "Production 1: CH4" -> 5000 + 3 * Sin(t, 16)
      [] key = "Production 2: O2"  -> 20900 + (120 * Sin(t, 28)) \div 1000
      [] key = "Production 2: H2S" -> 2000 + (2500 * Sin(t, 14)) \div 1000

\* bump = max(0.0, (elapsed/3.5) * (10 if g != "O2" else -2)), in thousandths
Bump(g, elapsed) ==
    Max(0, (elapsed * (IF g # "O2" THEN 10 ELSE 0 - 2) * 2000) \div (7 * Hz))

\* Whether the loop over ROOM_DETECTORS.get(sp["room"], []) bumps this key
Bumped(sp, key) ==
    /\ sp # None
    /\ sp.room \in DOMAIN ROOM_DETECTORS
    /\ \E i \in DOMAIN ROOM_DETECTORS[sp.room] : ROOM_DETECTORS[sp.room][i] = key
    /\ DetectorGas[key] = sp.gas

\* vals after the spike's bump, at time ts
LiveValue(sp, key, ts) ==
    IF Bumped(sp, key)
    THEN BaseValue(key, ts) + Bump(DetectorGas[key], ts - sp.start_ts)
    ELSE BaseValue(key, ts)

RECURSIVE PushAll(_, _, _, _)
PushAll(s, sp, i, ts) ==
    IF i > Len(ValKeys) THEN s
    ELSE PushAll(push_point(s, ValKeys[i], LiveValue(sp, ValKeys[i], ts), ts), sp, i + 1, ts)

\* simulate_live_values() at time ts with the session's spike sp
simulate_live_values(s, sp, ts) == PushAll(s, sp, 1, ts)


-----------------------------------------------------------------------------
(* The spike event *)

\* A start that does not replace a spike already held
NewSpike_keep(rn, gas, ts) ==
    IF spike # None THEN spike
    ELSE [room |-> rn, gas |-> gas, start_ts |-> ts,
          duration |-> 14, shutters_at |-> 5, fade_after |-> 9]

\* The dict the three start-spike handlers write
NewSpike(rn, gas, ts) ==
    [room |-> rn, gas |-> gas, start_ts |-> ts,
     duration |-> 14, shutters_at |-> 5, fade_after |-> 9]

-----------------------------------------------------------------------------
(* The sidebar: render_sidebar_ai and its script *)

\* A timeline whose alarm entry is left out for a low-trip gas
Events_skip(sp) ==
    LET all == << [at |-> 0,  msg |-> sp.gas \o " levels elevated in " \o sp.room \o ". Monitoring..."],
                  [at |-> 2,  msg |-> sp.gas \o " rising. Investigate source and increase ventilation."],
                  [at |-> 5,  msg |-> "Alarm threshold reached. Closing shutters to isolate " \o sp.room \o "."],
                  [at |-> 7,  msg |-> sp.room \o " isolated. Production areas remain safe."],
                  [at |-> 10, msg |-> "Ventilation engaged. " \o sp.gas \o " dissipating."],
                  [at |-> 13, msg |-> sp.room \o " returned to safe condition."] >>
    IN  IF sp.gas = "O2" THEN SubSeq(all, 1, 2) \o SubSeq(all, 4, 6) ELSE all

Events(sp) ==
    << [at |-> 0,  msg |-> sp.gas \o " levels elevated in " \o sp.room \o ". Monitoring..."],
       [at |-> 2,  msg |-> sp.gas \o " rising. Investigate source and increase ventilation."],
       [at |-> 5,  msg |-> "Alarm threshold reached. Closing shutters to isolate " \o sp.room \o "."],
       [at |-> 7,  msg |-> sp.room \o " isolated. Production areas remain safe."],
       [at |-> 10, msg |-> "Ventilation engaged. " \o sp.gas \o " dissipating."],
       [at |-> 13, msg |-> sp.room \o " returned to safe condition."] >>

\* data, the snapshot handed to the script (null without a spike)
SidebarData(sp) ==
    IF sp = None THEN None
    ELSE [room |-> sp.room, gas |-> sp.gas, start_ts |-> sp.start_ts, events |-> Events(sp)]

\* One bubble of the log: the text, and the time ts() stamps on it
Bubble(text, t) == [text |-> text, shown |-> t]

\* The script runs at time t: the first bubble at once, a timer for each other event
ChatLoad(data, t) ==
    [data |-> data, load_ts |-> t,
     log  |-> IF data = None
              THEN <<Bubble("System idle. No active events.", t)>>
              ELSE <<Bubble(data.events[1].msg, t)>>]

\* The time event i's bubble is due: setTimeout(..., ev.at*1000) from the load
TimerDue(c, i) == c.load_ts + c.data.events[i].at * Hz

\* The timers that fire in (t0, t1], in the order of their delays
RECURSIVE FireTimers(_, _, _, _)
FireTimers(c, i, t0, t1) ==
    IF c.data = None \/ i > Len(c.data.events) THEN c
    ELSE IF t0 < TimerDue(c, i) /\ TimerDue(c, i) <= t1
         THEN FireTimers([c EXCEPT !.log = Append(@, Bubble(c.data.events[i].msg, TimerDue(c, i)))],
                         i + 1, t0, t1)
         ELSE FireTimers(c, i + 1, t0, t1)

ChatAdvance(c, t0, t1) == FireTimers(c, 2, t0, t1)

-----------------------------------------------------------------------------
(* The canvas: the draw() of render_facility and of render_room *)

GAS_COLOR ==
    [g \in Gases |->
        CASE g = "NH3"     -> <<168, 85, 247, 24>>
          [] g = "CO"      -> <<239, 68, 68, 26>>
          [] g = "O2"      -> <<30, 58, 138, 30>>
          [] g = "Ethanol" -> <<245, 158, 11, 26>>
          [] g = "CH4"     -> <<234, 179, 8, 26>>
          [] g = "H2S"     -> <<34, 197, 94, 26>>]

\* GAS_COLOR.get(sp["gas"], (239, 68, 68, 0.25)), the alpha in hundredths
ColorOf(gas) == IF gas \in DOMAIN GAS_COLOR THEN GAS_COLOR[gas] ELSE <<239, 68, 68, 25>>

WithColor(sp) ==
    [room |-> sp.room, gas |-> sp.gas, start_ts |-> sp.start_ts,
     duration |-> sp.duration, shutters_at |-> sp.shutters_at,
     fade_after |-> sp.fade_after, color |-> ColorOf(sp.gas)]

\* payload.active of the view the routing renders (null: nothing to animate)
ActivePayload(v, rn, sp) ==
    IF v = "facility"
    THEN IF sp # None THEN WithColor(sp) ELSE None
    ELSE IF v = "room" /\ rn # NoRoom
    THEN IF sp # None /\ sp.room = rn THEN WithColor(sp) ELSE None
    ELSE None

\* A fade that divides by duration - fade_after, without the 0.01
SmokeP_exact(a, elapsed) ==
    LET p     == FMax(Zero, FMin(One, Frac(elapsed, a.duration * Hz)))
        rise  == FMin(One, Frac(12 * p.n, 10 * p.d))
        fadeK == FMin(One, Frac(elapsed - a.fade_after * Hz,
                                (a.duration - a.fade_after) * Hz))
    IN  IF elapsed > a.fade_after * Hz
        THEN FMax(Zero, Frac(fadeK.d - fadeK.n, fadeK.d))
        ELSE rise

\* smokeP of draw() for payload a, elapsed ticks after a.start_ts
SmokeP(a, elapsed) ==
    LET p     == FMax(Zero, FMin(One, Frac(elapsed, a.duration * Hz)))
        rise  == FMin(One, Frac(12 * p.n, 10 * p.d))
        fadeK == FMin(One, Frac(100 * (elapsed - a.fade_after * Hz),
                                100 * (a.duration - a.fade_after) * Hz + Hz))
    IN  IF elapsed > a.fade_after * Hz
        THEN FMax(Zero, Frac(fadeK.d - fadeK.n, fadeK.d))
        ELSE rise

\* Shutters that start only after elapsed has passed shutters_at
ShutterK_late(a, elapsed) ==
    IF elapsed > a.shutters_at * Hz
    THEN FMin(One, Frac(10 * (elapsed - a.shutters_at * Hz), 8 * Hz))
    ELSE None

\* k of drawShutters, or None before elapsed reaches shutters_at
ShutterK(a, elapsed) ==
    IF elapsed >= a.shutters_at * Hz
    THEN FMin(One, Frac(10 * (elapsed - a.shutters_at * Hz), 8 * Hz))
    ELSE None

\* What one call of draw() at time t puts on the canvas
Draw(a, t) ==
    IF a = None THEN [smoke |-> Zero, shutters |-> None]
    ELSE [smoke |-> SmokeP(a, t - a.start_ts), shutters |-> ShutterK(a, t - a.start_ts)]

CanvasLoad(a, t) == [active |-> a, frame |-> Draw(a, t)]

\* requestAnimationFrame: the frame is redrawn as the clock moves
CanvasAdvance(cv, t) == [cv EXCEPT !.frame = Draw(cv.active, t)]


-----------------------------------------------------------------------------
(* The session: state after the first run of the script *)

NoProbe == [label |-> "", gas |-> "", val |-> 0, status |-> ""]

InitSession ==
    /\ view = "facility"
    /\ room = NoRoom
    /\ spike = None
    /\ buffers = <<>>
    /\ latest = <<>>
    /\ chat = ChatLoad(None, 0)
    /\ canvas = CanvasLoad(None, 0)
    /\ clicked = None

Init ==
    /\ InitSession
    /\ now = 0
    /\ probe = NoProbe

\* A set_view that keeps the selected room
set_view_keep(v, rn) ==
    /\ view' = v
    /\ room' = IF rn = NoRoom THEN room ELSE rn

\* set_view(view, room)
set_view(v, rn) ==
    /\ view' = v
    /\ room' = rn

\* st.rerun(): the script runs again from the top and the routing renders the
\* sidebar and the view for session state (v, rn, sp).  The browser runs the
\* sidebar's script again when its HTML changed, and may or may not (reload)
\* when it did not; the view's component is new on every rerun.
Rerun(v, rn, sp, reload) ==
    /\ chat' = IF reload \/ chat.data # SidebarData(sp)
               THEN ChatLoad(SidebarData(sp), now)
               ELSE chat
    /\ canvas' = CanvasLoad(ActivePayload(v, rn, sp), now)

\* The model presses start-spike only while the buffers are short
CanPush == \A k \in DOMAIN buffers : Len(buffers[k]) < MaxPoints

\* The body shared by the three start-spike buttons: write the spike, run the
\* simulator once, rerun
StartSpike(rn, key, reload) ==
    LET sp == NewSpike(rn, DetectorGas[key], now)
        s  == simulate_live_values([buffers |-> buffers, latest |-> latest], sp, now)
    IN  /\ CanPush
        /\ spike' = sp
        /\ buffers' = s.buffers
        /\ latest' = s.latest
        /\ clicked' = [room |-> rn, key |-> key, ts |-> now]
        /\ Rerun(view, room, sp, reload)
        /\ UNCHANGED <<view, room, now, probe>>

\* A room button of the facility view
EnterRoom(rn, reload) ==
    /\ view = "facility"
    /\ set_view("room", rn)
    /\ Rerun("room", rn, spike, reload)
    /\ UNCHANGED <<spike, buffers, latest, now, clicked, probe>>

\* "Back to Facility" of the room view
BackToFacility(reload) ==
    /\ view = "room" /\ room # NoRoom
    /\ set_view("facility", NoRoom)
    /\ Rerun("facility", NoRoom, spike, reload)
    /\ UNCHANGED <<spike, buffers, latest, now, clicked, probe>>

\* "Simulate Spike (Facility View)" with room_choice selected
SpikeFacility(room_choice, reload) ==
    /\ view = "facility"
    /\ StartSpike(room_choice, ROOM_DETECTORS[room_choice][1], reload)

\* "Simulate {gas} Spike" of the room view
SpikeRoom(reload) ==
    /\ view = "room" /\ room # NoRoom
    /\ StartSpike(room, ROOM_DETECTORS[room][1], reload)

\* "Simulate Spike" under detector i of the room view
SpikeDetector(i, reload) ==
    /\ view = "room" /\ room # NoRoom
    /\ i \in DOMAIN ROOM_DETECTORS[room]
    /\ StartSpike(room, ROOM_DETECTORS[room][i], reload)

\* The clock moves dt ticks: the sidebar's due timers fire, the canvas redraws
Tick(dt) ==
    /\ now + dt <= MaxTick
    /\ now' = now + dt
    /\ chat' = ChatAdvance(chat, now, now + dt)
    /\ canvas' = CanvasAdvance(canvas, now + dt)
    /\ UNCHANGED <<view, room, spike, buffers, latest, clicked, probe>>

UserAction ==
    \/ \E rn \in RoomSet, reload \in BOOLEAN : EnterRoom(rn, reload)
    \/ \E reload \in BOOLEAN : BackToFacility(reload)
    \/ \E rn \in RoomSet, reload \in BOOLEAN : SpikeFacility(rn, reload)
    \/ \E reload \in BOOLEAN : SpikeRoom(reload)
    \/ \E i \in 1..2, reload \in BOOLEAN : SpikeDetector(i, reload)

\* The session over whole time units
Next ==
    \/ UserAction
    \/ Tick(Hz)

Spec == Init /\ [][Next]_vars

\* The session's first BriefUnits time units
NextBrief ==
    \/ UserAction
    \/ now < BriefUnits * Hz /\ Tick(Hz)

SpecBrief == Init /\ [][NextBrief]_vars

\* The buttons pressed at time 0, then the animation tick by tick
NextFrames ==
    \/ now = 0 /\ UserAction
    \/ Tick(1)

SpecFrames == Init /\ [][NextFrames]_vars

-----------------------------------------------------------------------------
(* The simulator applied at any time of a spike *)

\* One call of simulate_live_values() in the current state
SimulatorTick ==
    LET s == simulate_live_values([buffers |-> buffers, latest |-> latest], spike, now)
    IN  /\ CanPush
        /\ buffers' = s.buffers
        /\ latest' = s.latest
        /\ UNCHANGED <<view, room, spike, now, chat, canvas, clicked, probe>>

NextSim ==
    \/ now = 0 /\ UserAction
    \/ Tick(Hz)
    \/ SimulatorTick

SpecSim == Init /\ [][NextSim]_vars

-----------------------------------------------------------------------------
(* push_point on buffers that are one point short of the cap *)

MaxPushes == 2

\* The values passed as val
PushValues == {0, DEFAULT_THR["O2"].alarm}

\* The session has seen "Simulate Spike (Facility View)" pressed for the first
\* room once per tick, BufferCap - 1 times, the first press at tick 0
PrefillPresses == BufferCap - 1

LastPress == PrefillPresses - 1

PressedSpike(ts) == NewSpike(ROOMS[1], DetectorGas[ROOM_DETECTORS[ROOMS[1]][1]], ts)

\* What the presses have pushed: one point per key and press
PrefillBuffers ==
    [k \in Detectors |->
        [i \in 1..PrefillPresses |->
            Point(i - 1, LiveValue(PressedSpike(i - 1), k, i - 1))]]

InitBuffers ==
    /\ view = "facility"
    /\ room = NoRoom
    /\ spike = PressedSpike(LastPress)
    /\ buffers = PrefillBuffers
    /\ latest = [k \in Detectors |-> PrefillBuffers[k][PrefillPresses]]
    /\ clicked = [room |-> ROOMS[1], key |-> ROOM_DETECTORS[ROOMS[1]][1], ts |-> LastPress]
    /\ chat = ChatLoad(SidebarData(PressedSpike(LastPress)), LastPress)
    /\ canvas = CanvasLoad(ActivePayload("facility", NoRoom, PressedSpike(LastPress)), LastPress)
    /\ now = LastPress
    /\ probe = NoProbe

\* One call push_point(key, val); the clock has moved on by the next call
PushPoint(key, val) ==
    LET s == push_point([buffers |-> buffers, latest |-> latest], key, val, now + 1)
    IN  /\ now < LastPress + MaxPushes
        /\ buffers' = s.buffers
        /\ latest' = s.latest
        /\ now' = now + 1
        /\ chat' = ChatAdvance(chat, now, now + 1)
        /\ canvas' = CanvasAdvance(canvas, now + 1)
        /\ UNCHANGED <<view, room, spike, clicked, probe>>

NextBuffers == \E key \in Detectors, val \in PushValues : PushPoint(key, val)

SpecBuffers == InitBuffers /\ [][NextBuffers]_vars

-----------------------------------------------------------------------------
(* The pure helpers applied to drawn arguments *)

ReadingDelta == 1

Levels == UNION {{DEFAULT_THR[g].warn, DEFAULT_THR[g].alarm} : g \in Gases}

TestReadings ==
    {l + d : l \in Levels, d \in (0 - ReadingDelta)..ReadingDelta}
        \cup {0 - 1000, 0, 20900, 1000000}

TestLabels ==
    Detectors \cup {"Lab 4: CO2", "Store: Argon", "Boiler LEL", "Ammonia store",
                    "Methane main", "vent co", "Tank N2"}

TestGases == Gases \cup {"CO2", "Argon"}

InitPolicy ==
    /\ InitSession
    /\ now = 0
    /\ \E v \in TestReadings :
          \/ \E l \in TestLabels : probe = [label |-> l, gas |-> "", val |-> v, status |-> ""]
          \/ \E g \in TestGases : probe = [label |-> "", gas |-> g, val |-> v, status |-> ""]

\* g = gas_from_label(key)
ParseLabel ==
    /\ probe.label # "" /\ probe.gas = ""
    /\ probe' = [probe EXCEPT !.gas = gas_from_label(probe.label)]
    /\ UNCHANGED <<session, now>>

\* status_for_value(gas, val)
Classify ==
    /\ probe.gas # "" /\ probe.status = ""
    /\ probe' = [probe EXCEPT !.status = status_for_value(probe.gas, probe.val)]
    /\ UNCHANGED <<session, now>>

NextPolicy ==
    \/ ParseLabel
    \/ Classify

SpecPolicy == InitPolicy /\ [][NextPolicy]_vars


-----------------------------------------------------------------------------
(* Claims *)

\* The detectors of a room, as a set
DetectorsOf(rn) == {ROOM_DETECTORS[rn][i] : i \in DOMAIN ROOM_DETECTORS[rn]}

\* C1: for a configured gas, status_for_value returns ALARM at or beyond the
\* alarm level, else WARN at or beyond the warn level, else HEALTHY, where
\* "beyond" is above in high-trip mode and below in low-trip mode; O2 is ALARM
\* at 18.0, WARN at 19.5 and HEALTHY at 20.9.
C1_TwoLevelPolicy ==
    (probe.status # "" /\ probe.gas \in Gases) =>
        LET thr == DEFAULT_THR[probe.gas]
            v   == probe.val
        IN  /\ thr.mode \in {"high", "low"}
            /\ thr.mode = "high" =>
                  /\ v >= thr.alarm => probe.status = "ALARM"
                  /\ (v < thr.alarm /\ v >= thr.warn) => probe.status = "WARN"
                  /\ (v < thr.alarm /\ v < thr.warn) => probe.status = "HEALTHY"
            /\ thr.mode = "low" =>
                  /\ v <= thr.alarm => probe.status = "ALARM"
                  /\ (v > thr.alarm /\ v <= thr.warn) => probe.status = "WARN"
                  /\ (v > thr.alarm /\ v > thr.warn) => probe.status = "HEALTHY"
            /\ (probe.gas = "O2" /\ v = 18000) => probe.status = "ALARM"
            /\ (probe.gas = "O2" /\ v = 19500) => probe.status = "WARN"
            /\ (probe.gas = "O2" /\ v = 20900) => probe.status = "HEALTHY"

\* A low-trip reading exactly at the warn level has been classified WARN
C1_Witness ==
    /\ probe.gas = "O2" /\ probe.val = 19500 /\ probe.status = "WARN"

\* C2: the session holds no spike until a start-spike button is pressed, and
\* from then on exactly the event the most recent press wrote: its room, its
\* gas, its start time, duration 14, shutters_at 5, fade_after 9.
C2_LastStartWins ==
    /\ clicked = None => spike = None
    /\ clicked # None =>
          spike = [room |-> clicked.room, gas |-> DetectorGas[clicked.key],
                   start_ts |-> clicked.ts,
                   duration |-> 14, shutters_at |-> 5, fade_after |-> 9]

\* A second start replaced an earlier one, and a navigation followed it
C2_Witness ==
    /\ spike # None
    /\ \E k \in DOMAIN buffers :
          /\ Len(buffers[k]) = 2
          /\ buffers[k][1].ts < spike.start_ts
          /\ buffers[k][2].ts = spike.start_ts
    /\ spike.start_ts < chat.load_ts
    /\ view = "room" /\ room # spike.room

\* C3: once a spike has expired and the script has run again, the session
\* holds no spike.
C3_ExpiredSpikeCleared ==
    ~ /\ spike # None
      /\ chat.load_ts - spike.start_ts > spike.duration * Hz

\* C4: a spike whose elapsed time is negative or beyond its duration shows no
\* smoke and no shutter overlay on the canvas.
C4_InactiveShowsNothing ==
    canvas.active # None =>
        LET elapsed == now - canvas.active.start_ts IN
        (elapsed < 0 \/ elapsed > canvas.active.duration * Hz) =>
            /\ FEq(canvas.frame.smoke, Zero)
            /\ canvas.frame.shutters = None

\* key is a detector of the held spike's room and gas, and has a reading
HeldDetector(key) ==
    /\ spike # None
    /\ key \in DOMAIN latest
    /\ key \in DetectorsOf(spike.room)
    /\ DetectorGas[key] = spike.gas

\* The time from the held spike's start to the last reading of key, in ticks
ReadingElapsed(key) == latest[key].ts - spike.start_ts

\* How far the last reading of key is from the simulator's baseline
ReadingBump(key) == latest[key].val - BaseValue(key, latest[key].ts)

\* C5: while a spike is active and elapsed > 0, the reading of its detector is
\* below the baseline for a low-trip gas and above it for a high-trip gas.
C5_BumpSignedByMode ==
    \A key \in DOMAIN latest :
        ( /\ HeldDetector(key)
          /\ ReadingElapsed(key) > 0
          /\ ReadingElapsed(key) <= spike.duration * Hz ) =>
            /\ DEFAULT_THR[spike.gas].mode = "low" => ReadingBump(key) < 0
            /\ DEFAULT_THR[spike.gas].mode = "high" => ReadingBump(key) > 0

\* C6: a reading differs from its baseline only for a detector of the spike's
\* room and gas and only while 0 <= elapsed <= duration, so the difference
\* stays within what elapsed = duration gives (duration / 3.5 * 10).
C6_BumpOnlyWhileActive ==
    \A key \in DOMAIN latest :
        /\ ReadingBump(key) # 0 =>
              /\ HeldDetector(key)
              /\ ReadingElapsed(key) >= 0
              /\ ReadingElapsed(key) <= spike.duration * Hz
        /\ HeldDetector(key) =>
              /\ ReadingBump(key) <= (spike.duration * 20000) \div 7
              /\ ReadingBump(key) >= 0 - (spike.duration * 20000) \div 7

\* The elapsed time of the canvas's spike, in ticks
CanvasElapsed == now - canvas.active.start_ts

\* smokeP one tick before the frame on the canvas
PrevSmoke == SmokeP(canvas.active, CanvasElapsed - 1)

\* The canvas animates a spike, elapsed in [0, duration]
Animating ==
    /\ canvas.active # None
    /\ CanvasElapsed >= 0
    /\ CanvasElapsed <= canvas.active.duration * Hz

\* C7 as claimed: intensity on [0, duration] is within [0,1], is 0 at elapsed 0,
\* strictly increases until fade_after, from there strictly decreases without an
\* upward jump, and is exactly 0 at elapsed = duration.
C7_RiseThenFallToZero ==
    Animating =>
        LET a == canvas.active
            e == CanvasElapsed
            s == canvas.frame.smoke
        IN  /\ FLe(Zero, s) /\ FLe(s, One)
            /\ e = 0 => FEq(s, Zero)
            /\ (e >= 1 /\ e <= a.fade_after * Hz) => FLt(PrevSmoke, s)
            /\ (e - 1 >= a.fade_after * Hz) => FLt(s, PrevSmoke)
            /\ e = a.duration * Hz => FEq(s, Zero)

\* C7 as amended: intensity on [0, duration] is within [0,1], is 0 at elapsed 0
\* and strictly increases until fade_after, where it is 1.2*fade_after/duration;
\* just after fade_after it jumps up, then strictly decreases as
\* 1 - (elapsed - fade_after)/(duration - fade_after + 0.01), which at
\* elapsed = duration is 0.01/(duration - fade_after + 0.01), not 0.  With
\* duration 14 and fade_after 9: 18/35 (0.514) at 6, 401/501 (0.8) at 10,
\* 1/501 at 14.
C7_RiseJumpThenFall ==
    Animating =>
        LET a == canvas.active
            e == CanvasElapsed
            s == canvas.frame.smoke
        IN  /\ FLe(Zero, s) /\ FLe(s, One)
            /\ e = 0 => FEq(s, Zero)
            /\ (e >= 1 /\ e <= a.fade_after * Hz) => FLt(PrevSmoke, s)
            /\ e = a.fade_after * Hz => FEq(s, Frac(12 * a.fade_after, 10 * a.duration))
            /\ (e - 1 = a.fade_after * Hz) => FLt(PrevSmoke, s)
            /\ (e - 1 > a.fade_after * Hz) => FLt(s, PrevSmoke)
            /\ e > a.fade_after * Hz =>
                  FEq(s, Frac(100 * (a.duration * Hz - e) + Hz,
                              100 * (a.duration - a.fade_after) * Hz + Hz))
            /\ e = a.duration * Hz => FLt(Zero, s)
            /\ (a.duration = 14 /\ a.fade_after = 9) =>
                  /\ e = 6 * Hz => FEq(s, Frac(18, 35))
                  /\ e = 10 * Hz => FEq(s, Frac(401, 501))
                  /\ e = 14 * Hz => FEq(s, Frac(1, 501))

\* The frame drawn at elapsed = duration still shows a trace of smoke
C7_Witness ==
    /\ canvas.active # None
    /\ CanvasElapsed = canvas.active.duration * Hz
    /\ FEq(canvas.frame.smoke, Frac(1, 501))

\* The offsets of a timeline, in order
Offsets(events) == [i \in DOMAIN events |-> events[i].at]

\* C8: the timeline the sidebar builds for the held spike has exactly 6
\* entries with offsets 0, 2, 5, 7, 10, 13 in that order, whatever the gas and
\* room; a rerun that builds it again from the same spike builds the same
\* list, and building it leaves the spike as it was.
C8_FixedTimeline ==
    /\ [](spike # None =>
            /\ chat.data # None
            /\ chat.data.room = spike.room /\ chat.data.gas = spike.gas
            /\ Len(chat.data.events) = 6
            /\ Offsets(chat.data.events) = <<0, 2, 5, 7, 10, 13>>)
    /\ [][(spike # None /\ clicked' = clicked) =>
            /\ spike' = spike
            /\ chat'.data = chat.data]_vars

\* The sidebar of a held low-trip spike was built again by a later rerun
C8_Witness ==
    /\ spike # None /\ spike.gas = "O2"
    /\ chat.load_ts > spike.start_ts
    /\ Len(chat.data.events) = 6

\* C9: every message on the sidebar was shown at the spike's start time plus
\* its offset: none before that time, and none at a time counted from the
\* moment the sidebar was rendered instead.
C9_ShownAtStartPlusOffset ==
    chat.data # None =>
        \A i \in DOMAIN chat.log :
            \E j \in DOMAIN chat.data.events :
                /\ chat.log[i].text = chat.data.events[j].msg
                /\ chat.log[i].shown = chat.data.start_ts + chat.data.events[j].at * Hz

\* The substrings gas_from_label looks for
LabelPatterns == {"o2", "h2s", "ch4", "lel", "methane", "nh3", "ammonia", "ethanol", "co"}

\* C10: classifying a reading of a gas without a threshold configuration is a
\* configuration error, and so is the gas of a label that matches no known gas.
C10_UnconfiguredIsError ==
    /\ (probe.gas # "" /\ probe.gas \notin Gases /\ probe.status # "") =>
          probe.status = "ConfigurationError"
    /\ ( /\ probe.label # "" /\ probe.gas # ""
         /\ \A pat \in LabelPatterns : ~Contains(Lower(probe.label), pat) ) =>
          probe.gas = "ConfigurationError"


\* The lifecycle phase the canvas shows: 1 DETECTED/RISING (no shutters),
\* 2 SHUTTERS_CLOSING (shutters part way), 3 ISOLATED (shutters closed),
\* 4 VENTILATING (from fade_after), 5 RECOVERED/INACTIVE (from duration)
PhaseOf(cv, t) ==
    LET e == t - cv.active.start_ts IN
    IF e >= cv.active.duration * Hz THEN 5
    ELSE IF e >= cv.active.fade_after * Hz THEN 4
    ELSE IF cv.frame.shutters = None THEN 1
    ELSE IF FLt(cv.frame.shutters, One) THEN 2
    ELSE 3

\* k one tick before the frame on the canvas
PrevShutter == ShutterK(canvas.active, CanvasElapsed - 1)

\* C11: during one spike the canvas's phase never goes back as time advances;
\* no shutters are shown while elapsed < shutters_at, they begin closing (k = 0)
\* exactly at elapsed = shutters_at, never reopen, and are fully closed (k = 1)
\* exactly from 0.8 time units later; the intensity does not decay before
\* elapsed has reached fade_after.
C11_ForwardLifecycle ==
    /\ [](( /\ canvas.active # None
            /\ CanvasElapsed >= 0 ) =>
            LET a == canvas.active
                e == CanvasElapsed
                k == canvas.frame.shutters
            IN  /\ e < a.shutters_at * Hz => k = None
                /\ e >= a.shutters_at * Hz => k # None
                /\ e = a.shutters_at * Hz => FEq(k, Zero)
                /\ e > a.shutters_at * Hz => FLe(PrevShutter, k)
                /\ e >= a.shutters_at * Hz =>
                      (FEq(k, One) <=> 10 * (e - a.shutters_at * Hz) >= 8 * Hz)
                /\ (e >= 1 /\ e <= a.fade_after * Hz) =>
                      FLe(PrevSmoke, canvas.frame.smoke)
                /\ 10 * a.shutters_at + 8 <= 10 * a.fade_after
                /\ a.fade_after <= a.duration)
    /\ [][( /\ canvas.active # None
            /\ canvas'.active = canvas.active
            /\ CanvasElapsed >= 0 ) =>
            PhaseOf(canvas', now') >= PhaseOf(canvas, now)]_vars

\* The shutters have just closed fully, 0.8 time units after shutters_at, and
\* the spike is not yet ventilating
C11_Witness ==
    /\ canvas.active # None
    /\ 10 * (CanvasElapsed - canvas.active.shutters_at * Hz) = 8 * Hz
    /\ FEq(canvas.frame.shutters, One)
    /\ FLt(PrevShutter, One)
    /\ PhaseOf(canvas, now) = 3


\* C13: the view is "facility" with no room selected, or "room" with one of
\* the configured rooms selected; a step that starts a spike leaves the view
\* and the selected room as they were, and a step that navigates leaves the
\* held spike as it was.
C13_ViewRoomConsistent ==
    /\ [](\/ view = "facility" /\ room = NoRoom
          \/ view = "room" /\ room \in RoomSet)
    /\ [][(spike' # spike \/ clicked' # clicked) =>
             (view' = view /\ room' = room)]_vars
    /\ [][(view' # view \/ room' # room) =>
             (spike' = spike /\ clicked' = clicked)]_vars

\* Back on the facility view holding a spike that was started inside a room
\* with the button of a detector other than the room's first
C13_Witness ==
    /\ view = "facility"
    /\ room = NoRoom
    /\ spike # None
    /\ clicked.room = spike.room
    /\ clicked.key # ROOM_DETECTORS[spike.room][1]


\* The keys whose buffer or latest entry a step has changed
PushedKeys ==
    {k \in DOMAIN buffers' :
        \/ k \notin DOMAIN buffers
        \/ buffers'[k] # buffers[k]
        \/ latest'[k] # latest[k]}

\* new is old with the point p pushed: the last BufferCap points of old
\* followed by p, in that order
IsPushed(old, new, p) ==
    LET app == Append(old, p)
        n   == IF Len(app) > BufferCap THEN BufferCap ELSE Len(app)
    IN  /\ Len(new) = n
        /\ \A i \in 1..n : new[i] = app[Len(app) - n + i]

\* C12: every buffer holds at most 1800 points and latest[key] is the last
\* point of the key's buffer; a push_point call changes one key only, whose
\* buffer becomes its old points followed by the pushed point, the oldest
\* dropped beyond 1800, and leaves every other buffer and latest entry as it was.
C12_BufferKeepsNewest ==
    /\ [](/\ DOMAIN latest = DOMAIN buffers
          /\ \A k \in DOMAIN buffers :
                /\ Len(buffers[k]) >= 1
                /\ Len(buffers[k]) <= BufferCap
                /\ latest[k] = buffers[k][Len(buffers[k])])
    /\ [][/\ Cardinality(PushedKeys) <= 1
          /\ \A k \in DOMAIN buffers : k \in DOMAIN buffers'
          /\ \A k \in PushedKeys :
                IsPushed(IF k \in DOMAIN buffers THEN buffers[k] ELSE <<>>,
                         buffers'[k], latest'[k])]_vars

\* A full buffer that has dropped its oldest point, next to one still short of
\* the cap that has kept its first point
C12_Witness ==
    \E k, j \in DOMAIN buffers :
        /\ Len(buffers[k]) = BufferCap
        /\ buffers[k][1].ts = 1
        /\ buffers[k][BufferCap].ts = now
        /\ latest[k] = buffers[k][BufferCap]
        /\ Len(buffers[j]) = BufferCap - 1
        /\ buffers[j][1].ts = 0

====
